---- MODULE Spec2Model ----
(***************************************************************************)
(* A model of mnamer/rclone.py: the helpers that classify, split and join  *)
(* rclone remote paths, and the wrappers that run the rclone binary with   *)
(* subprocess.run and turn its outcome into a plain value.                 *)
(*                                                                         *)
(* A Python str is a sequence of one-character strings, so that regular    *)
(* expression matching, str.split, str.strip and PurePosixPath are         *)
(* computed character by character, as the code computes them.             *)
(***************************************************************************)
EXTENDS Integers, Sequences, FiniteSets, TLC

(***************************************************************************)
(* Bounds of the model.                                                    *)
(***************************************************************************)
\* longest path string given to is_remote_path / parse_remote_path
MaxPathLen == 5
\* longest subpath (the text after "remote:") given to join / exists
MaxSubLen == 4
\* most *parts given to join_remote_path
MaxParts == 2
\* longest standard output of `rclone lsf` given to rclone_lsf
MaxOutLen == 5
\* longest standard output of `rclone listremotes`, and of the listing
\* rclone_exists asks for
MaxListing == 4

(***************************************************************************)
(* Strings.                                                                *)
(***************************************************************************)
\* every string over alphabet A of at most n characters
Strs(A, n) == UNION {[1..k -> A] : k \in 0..n}

\* s[i:] of Python, i counted from 1
Drop(s, i) == SubSeq(s, i, Len(s))

\* c in s
Contains(s, c) == \E i \in 1..Len(s) : s[i] = c

\* s.find(c) + 1: the first position of c in s, 0 when absent
Find(s, c) ==
    IF Contains(s, c)
    THEN CHOOSE i \in 1..Len(s) : s[i] = c /\ \A j \in 1..(i - 1) : s[j] # c
    ELSE 0

\* str.isspace for one character (the whitespace str.strip() removes)
IsSpace(c) == c \in {" ", "\n", "\t", "\r"}

RECURSIVE LStrip(_)
LStrip(s) == IF s # <<>> /\ IsSpace(Head(s)) THEN LStrip(Tail(s)) ELSE s

RECURSIVE RStrip(_)
RStrip(s) ==
    IF s # <<>> /\ IsSpace(s[Len(s)]) THEN RStrip(SubSeq(s, 1, Len(s) - 1)) ELSE s

\* str.strip()
Strip(s) == RStrip(LStrip(s))

\* str.rstrip(c) for a one-character argument
RECURSIVE RStripChar(_, _)
RStripChar(s, c) ==
    IF s # <<>> /\ s[Len(s)] = c THEN RStripChar(SubSeq(s, 1, Len(s) - 1), c) ELSE s

\* str.lstrip(c) for a one-character argument
RECURSIVE LStripChar(_, _)
LStripChar(s, c) == IF s # <<>> /\ Head(s) = c THEN LStripChar(Tail(s), c) ELSE s

\* str.split(c): the fields between the occurrences of c, at least one field
RECURSIVE Split(_, _)
Split(s, c) ==
    IF Find(s, c) = 0
    THEN <<s>>
    ELSE <<SubSeq(s, 1, Find(s, c) - 1)>> \o Split(Drop(s, Find(s, c) + 1), c)

\* c.join(fields)
RECURSIVE Join(_, _)
Join(fields, c) ==
    IF fields = <<>> THEN <<>>
    ELSE IF Len(fields) = 1 THEN fields[1]
    ELSE fields[1] \o <<c>> \o Join(Tail(fields), c)

\* [f for f in fields if f not in drop], the order kept
RECURSIVE Without(_, _)
Without(fields, drop) ==
    IF fields = <<>> THEN <<>>
    ELSE IF Head(fields) \in drop THEN Without(Tail(fields), drop)
    ELSE <<Head(fields)>> \o Without(Tail(fields), drop)

\* [f(x) for x in fields] for f = str.strip
RECURSIVE StripEach(_)
StripEach(fields) ==
    IF fields = <<>> THEN <<>> ELSE <<Strip(Head(fields))>> \o StripEach(Tail(fields))

\* x in list
Member(x, list) == \E i \in 1..Len(list) : list[i] = x

(***************************************************************************)
(* pathlib.PurePosixPath: a root ("", "/" or "//") and the components.     *)
(***************************************************************************)
\* posix splitroot: exactly two leading slashes are kept, any other number is one
PosixRoot(s) ==
    IF s = <<>> \/ Head(s) # "/" THEN <<>>
    ELSE IF Len(s) - Len(LStripChar(s, "/")) = 2 THEN <<"/", "/">>
    ELSE <<"/">>

\* PurePosixPath(s): empty and "." components are dropped
PurePosixPath(s) ==
    [root  |-> PosixRoot(s),
     parts |-> Without(Split(LStripChar(s, "/"), "/"), {<<>>, <<".">>})]

\* str(p): "." for the empty path
PosixStr(p) ==
    IF p.root = <<>> /\ p.parts = <<>> THEN <<".">>
    ELSE p.root \o Join(p.parts, "/")

\* p.parent: a root, and the empty path, are their own parent
PosixParent(p) ==
    IF p.parts = <<>> THEN p
    ELSE [root |-> p.root, parts |-> SubSeq(p.parts, 1, Len(p.parts) - 1)]

\* p.name: the last component, "" for a root or the empty path
PosixName(p) == IF p.parts = <<>> THEN <<>> ELSE p.parts[Len(p.parts)]

\* p.joinpath(*args): an argument that begins with "/" replaces what precedes it
RECURSIVE PosixJoin(_, _)
PosixJoin(p, args) ==
    IF args = <<>> THEN p
    ELSE LET q == PurePosixPath(Head(args))
         IN PosixJoin(IF q.root # <<>> THEN q
                      ELSE [root |-> p.root, parts |-> p.parts \o q.parts],
                      Tail(args))

\* PurePosixPath(*args)
PosixOf(args) == PosixJoin([root |-> <<>>, parts |-> <<>>], args)

(***************************************************************************)
(* The pure helpers of rclone.py.                                          *)
(***************************************************************************)
\* re.match(r"^[^/\\]{2,}:", path_str): some k >= 2 leading characters, none
\* of them "/" or "\", with a ":" right after them
is_remote_path(path) ==
    \E k \in 2..Len(path) :
        /\ k + 1 <= Len(path)
        /\ \A i \in 1..k : path[i] \notin {"/", "\\"}
        /\ path[k + 1] = ":"

\* the slip of splitting on the last colon: path_str.rsplit(":", 1)
parse_remote_path_rsplit(path) ==
    IF Contains(path, ":")
    THEN LET i == CHOOSE i \in 1..Len(path) :
                      path[i] = ":" /\ \A j \in (i + 1)..Len(path) : path[j] # ":"
         IN <<SubSeq(path, 1, i - 1), Drop(path, i + 1)>>
    ELSE <<<<>>, path>>

\* path_str.split(":", 1) when ":" in path_str, else ("", path_str)
parse_remote_path(path) ==
    IF Contains(path, ":")
    THEN <<SubSeq(path, 1, Find(path, ":") - 1), Drop(path, Find(path, ":") + 1)>>
    ELSE <<<<>>, path>>

\* the slip of joining by hand: f"{remote_name}:{base_path}/{'/'.join(parts)}"
join_remote_path_concat(remote_base, parts) ==
    parse_remote_path(remote_base)[1] \o <<":">>
        \o parse_remote_path(remote_base)[2] \o <<"/">> \o Join(parts, "/")

\* f"{remote_name}:{joined}"
join_remote_path(remote_base, parts) ==
    LET remote_name == parse_remote_path(remote_base)[1]
        base_path == parse_remote_path(remote_base)[2]
        joined == IF base_path # <<>>
                  THEN PosixJoin(PurePosixPath(base_path), parts)
                  ELSE PosixOf(parts)
    IN remote_name \o <<":">> \o PosixStr(joined)

(***************************************************************************)
(* subprocess.run.  A command is a list of arguments: fixed words of the   *)
(* code, and path strings handed in by the caller.                         *)
(***************************************************************************)
W(word) == [kind |-> "word", word |-> word, path |-> <<>>]
P(path) == [kind |-> "path", word |-> "", path |-> path]

\* the exception subprocess.run raises for what happened to the child, "none"
\* when it returns a CompletedProcess: check=True turns a non-zero exit status
\* into CalledProcessError
run_exception(r, o) ==
    IF o.kind = "exited"
    THEN IF r.check /\ o.returncode # 0 THEN "CalledProcessError" ELSE "none"
    ELSE o.kind

Ret(v) == [kind |-> "return", val |-> v]
Raise(e) == [kind |-> "raise", val |-> e]

(***************************************************************************)
(* check_rclone_installed                                                  *)
(***************************************************************************)
check_rclone_installed_run ==
    [cmd |-> <<W("rclone"), W("version")>>, check |-> TRUE, text |-> FALSE,
     timeout |-> 5]

check_rclone_installed_except ==
    {"CalledProcessError", "FileNotFoundError", "TimeoutExpired"}

check_rclone_installed_result(r, o) ==
    LET e == run_exception(r, o)
    IN IF e = "none" THEN Ret(TRUE)
       ELSE IF e \in check_rclone_installed_except THEN Ret(FALSE)
       ELSE Raise(e)

(***************************************************************************)
(* rclone_listremotes                                                      *)
(***************************************************************************)
rclone_listremotes_run ==
    [cmd |-> <<W("rclone"), W("listremotes")>>, check |-> TRUE, text |-> TRUE,
     timeout |-> 10]

rclone_listremotes_except ==
    {"CalledProcessError", "FileNotFoundError", "TimeoutExpired"}

\* [line.rstrip(":") for line in result.stdout.strip().split("\n") if line]
RECURSIVE RStripColonEach(_)
RStripColonEach(lines) ==
    IF lines = <<>> THEN <<>>
    ELSE <<RStripChar(Head(lines), ":")>> \o RStripColonEach(Tail(lines))

rclone_listremotes_result(r, o) ==
    LET e == run_exception(r, o)
    IN IF e = "none"
       THEN Ret(RStripColonEach(Without(Split(Strip(o.stdout), "\n"), {<<>>})))
       ELSE IF e \in rclone_listremotes_except THEN Ret(<<>>)
       ELSE Raise(e)

(***************************************************************************)
(* rclone_lsf                                                              *)
(***************************************************************************)
rclone_lsf_cmd(remote_path, recursive, files_only) ==
    <<W("rclone"), W("lsf")>>
        \o (IF recursive THEN <<W("--recursive")>> ELSE <<>>)
        \o (IF files_only THEN <<W("--files-only")>> ELSE <<>>)
        \o <<P(remote_path)>>

rclone_lsf_run(remote_path, recursive, files_only) ==
    [cmd |-> rclone_lsf_cmd(remote_path, recursive, files_only),
     check |-> TRUE, text |-> TRUE, timeout |-> 60]

rclone_lsf_except == {"CalledProcessError", "FileNotFoundError", "TimeoutExpired"}

\* the slip of keeping the lines as they are, as rclone_listremotes does:
\* [line for line in result.stdout.strip().split("\n") if line]
rclone_lsf_files_unstripped(stdout) ==
    Without(Split(Strip(stdout), "\n"), {<<>>})

\* [line.strip() for line in result.stdout.strip().split("\n") if line.strip()]
rclone_lsf_files(stdout) ==
    Without(StripEach(Split(Strip(stdout), "\n")), {<<>>})

rclone_lsf_result(r, o) ==
    LET e == run_exception(r, o)
    IN IF e = "none" THEN Ret(rclone_lsf_files(o.stdout))
       ELSE IF e \in rclone_lsf_except THEN Ret(<<>>)
       ELSE Raise(e)

(***************************************************************************)
(* rclone_size                                                             *)
(***************************************************************************)
rclone_size_run(remote_path) ==
    [cmd |-> <<W("rclone"), W("size"), P(remote_path), W("--json")>>,
     check |-> TRUE, text |-> TRUE, timeout |-> 30]

rclone_size_except ==
    {"CalledProcessError", "FileNotFoundError", "TimeoutExpired",
     "JSONDecodeError", "ValueError"}

\* A JSON value: its type and, where int() has a value for it, that value.
JV(t, n) == [t |-> t, n |-> n]
\* A JSON document: an object (with or without a "bytes" member), another
\* value, or text json.loads rejects.
JObject(has_bytes, v) == [t |-> "object", has_bytes |-> has_bytes, bytes |-> v]
JOther(t) == [t |-> t, has_bytes |-> FALSE, bytes |-> JV("null", 0)]

\* the standard outputs of `rclone size --json` the model draws from
SizeOutputs ==
    {"{\"bytes\": 1048576}", "{\"bytes\": 0}", "{\"count\": 1, \"bytes\": 7}",
     "{\"bytes\": 1.5}", "{\"bytes\": 1e400}", "{\"bytes\": NaN}",
     "{\"bytes\": \"12\"}", "{\"bytes\": \"abc\"}", "{\"bytes\": true}",
     "{\"bytes\": null}", "{\"bytes\": [1]}", "{\"bytes\": {}}",
     "{}", "{\"count\": 1}", "[]", "12", "null", "invalid json", ""}

\* json.loads(result.stdout) on those outputs
json_loads(text) ==
    CASE text = "{\"bytes\": 1048576}" -> JObject(TRUE, JV("int", 1048576))
      [] text = "{\"bytes\": 0}" -> JObject(TRUE, JV("int", 0))
      [] text = "{\"count\": 1, \"bytes\": 7}" -> JObject(TRUE, JV("int", 7))
      [] text = "{\"bytes\": 1.5}" -> JObject(TRUE, JV("float", 1))
      [] text = "{\"bytes\": 1e400}" -> JObject(TRUE, JV("inf", 0))
      [] text = "{\"bytes\": NaN}" -> JObject(TRUE, JV("nan", 0))
      [] text = "{\"bytes\": \"12\"}" -> JObject(TRUE, JV("digits", 12))
      [] text = "{\"bytes\": \"abc\"}" -> JObject(TRUE, JV("letters", 0))
      [] text = "{\"bytes\": true}" -> JObject(TRUE, JV("bool", 1))
      [] text = "{\"bytes\": null}" -> JObject(TRUE, JV("null", 0))
      [] text = "{\"bytes\": [1]}" -> JObject(TRUE, JV("list", 0))
      [] text = "{\"bytes\": {}}" -> JObject(TRUE, JV("dict", 0))
      [] text = "{}" -> JObject(FALSE, JV("null", 0))
      [] text = "{\"count\": 1}" -> JObject(FALSE, JV("null", 0))
      [] text = "[]" -> JOther("list")
      [] text = "12" -> JOther("int")
      [] text = "null" -> JOther("null")
      [] OTHER -> JOther("JSONDecodeError")

\* int(v): the value, or the exception int() raises for v's type
python_int(v) ==
    CASE v.t \in {"int", "float", "digits", "bool"} -> Ret(v.n)
      [] v.t \in {"letters", "nan"} -> Raise("ValueError")
      [] v.t = "inf" -> Raise("OverflowError")
      [] OTHER -> Raise("TypeError")

\* int(data.get("bytes", 0)): .get exists on a dict only
rclone_size_parse(stdout) ==
    LET data == json_loads(stdout)
    IN IF data.t = "JSONDecodeError" THEN Raise("JSONDecodeError")
       ELSE IF data.t # "object" THEN Raise("AttributeError")
       ELSE IF data.has_bytes THEN python_int(data.bytes)
       ELSE python_int(JV("int", 0))

rclone_size_result(r, o) ==
    LET e == run_exception(r, o)
        parsed == rclone_size_parse(o.stdout)
    IN IF e = "none"
       THEN IF parsed.kind = "raise" /\ parsed.val \in rclone_size_except
            THEN Ret(0)
            ELSE parsed
       ELSE IF e \in rclone_size_except THEN Ret(0)
       ELSE Raise(e)

(***************************************************************************)
(* rclone_exists                                                           *)
(***************************************************************************)
\* pure_path.name of the path part
rclone_exists_filename(remote_path) ==
    PosixName(PurePosixPath(parse_remote_path(remote_path)[2]))

\* f"{remote_name}:" when the parent is ".", else f"{remote_name}:{parent}"
rclone_exists_parent_remote(remote_path) ==
    LET remote_name == parse_remote_path(remote_path)[1]
        parent == PosixStr(PosixParent(PurePosixPath(parse_remote_path(remote_path)[2])))
    IN IF parent = <<".">> THEN remote_name \o <<":">>
       ELSE remote_name \o <<":">> \o parent

\* the slip of listing with the defaults: rclone_lsf(parent_remote)
rclone_exists_run_defaults(remote_path) ==
    rclone_lsf_run(rclone_exists_parent_remote(remote_path), FALSE, TRUE)

\* rclone_lsf(parent_remote, recursive=False, files_only=False)
rclone_exists_run(remote_path) ==
    rclone_lsf_run(rclone_exists_parent_remote(remote_path), FALSE, FALSE)

\* filename in files, and False for any Exception of the listing
rclone_exists_result(remote_path, r, o) ==
    LET files == rclone_lsf_result(r, o)
    IN IF files.kind = "raise" THEN Ret(FALSE)
       ELSE Ret(Member(rclone_exists_filename(remote_path), files.val))

(***************************************************************************)
(* rclone_move, rclone_mkdir                                               *)
(***************************************************************************)
\* the slip of running the move without timeout=
rclone_move_run_no_timeout(source, destination) ==
    [cmd |-> <<W("rclone"), W("moveto"), P(source), P(destination)>>,
     check |-> TRUE, text |-> FALSE, timeout |-> 0]

rclone_move_run(source, destination) ==
    [cmd |-> <<W("rclone"), W("moveto"), P(source), P(destination)>>,
     check |-> TRUE, text |-> FALSE, timeout |-> 300]

rclone_move_except == {"CalledProcessError", "FileNotFoundError", "TimeoutExpired"}

rclone_move_result(r, o) ==
    LET e == run_exception(r, o)
    IN IF e = "none" THEN Ret(TRUE)
       ELSE IF e \in rclone_move_except THEN Ret(FALSE)
       ELSE Raise(e)

rclone_mkdir_run(remote_path) ==
    [cmd |-> <<W("rclone"), W("mkdir"), P(remote_path)>>,
     check |-> TRUE, text |-> FALSE, timeout |-> 30]

\* the slip of leaving subprocess.TimeoutExpired out of the except clause
rclone_mkdir_except_no_timeout == {"CalledProcessError", "FileNotFoundError"}

rclone_mkdir_except == {"CalledProcessError", "FileNotFoundError", "TimeoutExpired"}

rclone_mkdir_result(r, o) ==
    LET e == run_exception(r, o)
    IN IF e = "none" THEN Ret(TRUE)
       ELSE IF e \in rclone_mkdir_except THEN Ret(FALSE)
       ELSE Raise(e)

(***************************************************************************)
(* The inputs the model draws from.                                        *)
(***************************************************************************)
\* strings given to is_remote_path and parse_remote_path
ClassifyPaths == Strs({"c", "/", "\\", ":"}, MaxPathLen)

RemoteNames == {<<>>, <<"g", "d">>}
SubPaths == Strs({"a", "/", "."}, MaxSubLen)
\* "name:subpath" for each name and subpath, and each subpath alone (no colon)
RemotePaths ==
    {n \o <<":">> \o sub : n \in RemoteNames, sub \in SubPaths} \cup SubPaths

Segments == {<<"a">>, <<"b">>, <<".">>, <<"/", "b">>}
PartLists == Strs(Segments, MaxParts)

\* targets of the operations that only hand their path to rclone
Targets == {<<"g", "d", ":">>, <<"g", "d", ":", "/", "a">>}

LsfOutputs == Strs({"a", " ", "\n"}, MaxOutLen)
ListingOutputs == Strs({"a", "\n"}, MaxListing)
RemotesOutputs == Strs({"a", ":", "\n"}, MaxListing)

\* the names rclone.py defines at module level
ModuleNames ==
    {"json", "re", "subprocess", "Path", "PurePosixPath",
     "is_remote_path", "check_rclone_installed", "rclone_listremotes",
     "parse_remote_path", "rclone_lsf", "rclone_size", "rclone_exists",
     "rclone_move", "rclone_mkdir", "join_remote_path"}

(***************************************************************************)
(* State: one caller, one call at a time.                                  *)
(***************************************************************************)
VARIABLES
    pc,           \* "idle", "waiting" (inside subprocess.run) or "done"
    op,           \* the function called
    args,         \* its arguments
    run,          \* the subprocess.run call it made: cmd, check, text, timeout
    invocations,  \* how many times the call has called subprocess.run
    outcome,      \* what happened to the child process
    result        \* what the call returned or raised

vars == <<pc, op, args, run, invocations, outcome, result>>

NoArgs ==
    [path |-> <<>>, parts |-> <<>>, recursive |-> FALSE, files_only |-> FALSE,
     destination |-> <<>>]
NoRun == [cmd |-> <<>>, check |-> FALSE, text |-> FALSE, timeout |-> 0]
NoOutcome == [kind |-> "none", returncode |-> 0, stdout |-> <<>>]
NoResult == [kind |-> "none", val |-> <<>>]

Init ==
    /\ pc = "idle"
    /\ op = "none"
    /\ args = NoArgs
    /\ run = NoRun
    /\ invocations = 0
    /\ outcome = NoOutcome
    /\ result = NoResult

Call_is_remote_path(path) ==
    /\ pc = "idle"
    /\ pc' = "done"
    /\ op' = "is_remote_path"
    /\ args' = [NoArgs EXCEPT !.path = path]
    /\ result' = Ret(is_remote_path(path))
    /\ UNCHANGED <<run, invocations, outcome>>

Call_parse_remote_path(path) ==
    /\ pc = "idle"
    /\ pc' = "done"
    /\ op' = "parse_remote_path"
    /\ args' = [NoArgs EXCEPT !.path = path]
    /\ result' = Ret(parse_remote_path(path))
    /\ UNCHANGED <<run, invocations, outcome>>

Call_join_remote_path(remote_base, parts) ==
    /\ pc = "idle"
    /\ pc' = "done"
    /\ op' = "join_remote_path"
    /\ args' = [NoArgs EXCEPT !.path = remote_base, !.parts = parts]
    /\ result' = Ret(join_remote_path(remote_base, parts))
    /\ UNCHANGED <<run, invocations, outcome>>

Call_check_rclone_installed ==
    /\ pc = "idle"
    /\ pc' = "waiting"
    /\ op' = "check_rclone_installed"
    /\ args' = NoArgs
    /\ run' = check_rclone_installed_run
    /\ invocations' = invocations + 1
    /\ UNCHANGED <<outcome, result>>

Call_rclone_listremotes ==
    /\ pc = "idle"
    /\ pc' = "waiting"
    /\ op' = "rclone_listremotes"
    /\ args' = NoArgs
    /\ run' = rclone_listremotes_run
    /\ invocations' = invocations + 1
    /\ UNCHANGED <<outcome, result>>

Call_rclone_lsf(remote_path, recursive, files_only) ==
    /\ pc = "idle"
    /\ pc' = "waiting"
    /\ op' = "rclone_lsf"
    /\ args' = [NoArgs EXCEPT !.path = remote_path, !.recursive = recursive,
                            !.files_only = files_only]
    /\ run' = rclone_lsf_run(remote_path, recursive, files_only)
    /\ invocations' = invocations + 1
    /\ UNCHANGED <<outcome, result>>

Call_rclone_size(remote_path) ==
    /\ pc = "idle"
    /\ pc' = "waiting"
    /\ op' = "rclone_size"
    /\ args' = [NoArgs EXCEPT !.path = remote_path]
    /\ run' = rclone_size_run(remote_path)
    /\ invocations' = invocations + 1
    /\ UNCHANGED <<outcome, result>>

\* `if not path_part: return False` comes before the listing
Call_rclone_exists(remote_path) ==
    /\ pc = "idle"
    /\ op' = "rclone_exists"
    /\ args' = [NoArgs EXCEPT !.path = remote_path]
    /\ UNCHANGED outcome
    /\ IF parse_remote_path(remote_path)[2] = <<>>
       THEN /\ pc' = "done"
            /\ result' = Ret(FALSE)
            /\ UNCHANGED <<run, invocations>>
       ELSE /\ pc' = "waiting"
            /\ run' = rclone_exists_run(remote_path)
            /\ invocations' = invocations + 1
            /\ UNCHANGED result

Call_rclone_move(source, destination) ==
    /\ pc = "idle"
    /\ pc' = "waiting"
    /\ op' = "rclone_move"
    /\ args' = [NoArgs EXCEPT !.path = source, !.destination = destination]
    /\ run' = rclone_move_run(source, destination)
    /\ invocations' = invocations + 1
    /\ UNCHANGED <<outcome, result>>

Call_rclone_mkdir(remote_path) ==
    /\ pc = "idle"
    /\ pc' = "waiting"
    /\ op' = "rclone_mkdir"
    /\ args' = [NoArgs EXCEPT !.path = remote_path]
    /\ run' = rclone_mkdir_run(remote_path)
    /\ invocations' = invocations + 1
    /\ UNCHANGED <<outcome, result>>

\* rclone._reset_rclone_cache(): looking up a name the module does not define
\* raises AttributeError
Call_reset_rclone_cache ==
    /\ pc = "idle"
    /\ pc' = "done"
    /\ op' = "_reset_rclone_cache"
    /\ args' = NoArgs
    /\ result' = IF "_reset_rclone_cache" \in ModuleNames
                  THEN Ret("None") ELSE Raise("AttributeError")
    /\ UNCHANGED <<run, invocations, outcome>>

\* what the waiting call makes of the outcome of its subprocess.run
ResultOf(name, a, r, o) ==
    CASE name = "check_rclone_installed" -> check_rclone_installed_result(r, o)
      [] name = "rclone_listremotes" -> rclone_listremotes_result(r, o)
      [] name = "rclone_lsf" -> rclone_lsf_result(r, o)
      [] name = "rclone_size" -> rclone_size_result(r, o)
      [] name = "rclone_exists" -> rclone_exists_result(a.path, r, o)
      [] name = "rclone_move" -> rclone_move_result(r, o)
      [] name = "rclone_mkdir" -> rclone_mkdir_result(r, o)

\* what a successful child of the waiting call may print
Stdouts ==
    CASE pc # "waiting" -> {}
      [] op = "rclone_lsf" -> LsfOutputs
      [] op = "rclone_exists" -> ListingOutputs
      [] op = "rclone_listremotes" -> RemotesOutputs
      [] op = "rclone_size" -> SizeOutputs
      [] OTHER -> {<<>>}

\* the rclone binary is not on PATH
ProcNotFound ==
    /\ pc = "waiting"
    /\ pc' = "done"
    /\ outcome' = [kind |-> "FileNotFoundError", returncode |-> 0, stdout |-> <<>>]
    /\ result' = ResultOf(op, args, run, outcome')
    /\ UNCHANGED <<op, args, run, invocations>>

\* the rclone binary cannot be executed
ProcPermission ==
    /\ pc = "waiting"
    /\ pc' = "done"
    /\ outcome' = [kind |-> "PermissionError", returncode |-> 0, stdout |-> <<>>]
    /\ result' = ResultOf(op, args, run, outcome')
    /\ UNCHANGED <<op, args, run, invocations>>

\* the child exits with status 0 and its output
ProcSucceeds(stdout) ==
    /\ pc = "waiting"
    /\ pc' = "done"
    /\ outcome' = [kind |-> "exited", returncode |-> 0, stdout |-> stdout]
    /\ result' = ResultOf(op, args, run, outcome')
    /\ UNCHANGED <<op, args, run, invocations>>

\* the child exits with a non-zero status
ProcFails(returncode) ==
    /\ pc = "waiting"
    /\ pc' = "done"
    /\ outcome' = [kind |-> "exited", returncode |-> returncode, stdout |-> <<>>]
    /\ result' = ResultOf(op, args, run, outcome')
    /\ UNCHANGED <<op, args, run, invocations>>

\* the timeout of subprocess.run expires: the child is killed; without a
\* timeout= argument (0 here) this never happens
ProcTimeout ==
    /\ run.timeout > 0
    /\ pc = "waiting"
    /\ pc' = "done"
    /\ outcome' = [kind |-> "TimeoutExpired", returncode |-> 0, stdout |-> <<>>]
    /\ result' = ResultOf(op, args, run, outcome')
    /\ UNCHANGED <<op, args, run, invocations>>

\* the caller takes the result; the module keeps nothing of the call
Return ==
    /\ pc = "done"
    /\ pc' = "idle"
    /\ op' = "none"
    /\ args' = NoArgs
    /\ run' = NoRun
    /\ invocations' = 0
    /\ outcome' = NoOutcome
    /\ result' = NoResult

\* the inputs an idle caller may choose from: a call is only made when idle
Idle(inputs) == IF pc = "idle" THEN inputs ELSE {}

Next ==
    \/ \E path \in Idle(ClassifyPaths) : Call_is_remote_path(path)
    \/ \E path \in Idle(ClassifyPaths) : Call_parse_remote_path(path)
    \/ \E base \in Idle(RemotePaths), parts \in PartLists :
           Call_join_remote_path(base, parts)
    \/ Call_check_rclone_installed
    \/ Call_rclone_listremotes
    \/ \E path \in Idle(Targets), recursive \in BOOLEAN, files_only \in BOOLEAN :
           Call_rclone_lsf(path, recursive, files_only)
    \/ \E path \in Idle(Targets) : Call_rclone_size(path)
    \/ \E path \in Idle(RemotePaths) : Call_rclone_exists(path)
    \/ \E source \in Idle(Targets), destination \in Targets :
           Call_rclone_move(source, destination)
    \/ \E path \in Idle(Targets) : Call_rclone_mkdir(path)
    \/ Call_reset_rclone_cache
    \/ ProcNotFound
    \/ ProcPermission
    \/ \E stdout \in Stdouts : ProcSucceeds(stdout)
    \/ \E returncode \in {1, 2} : ProcFails(returncode)
    \/ ProcTimeout
    \/ Return

Spec == Init /\ [][Next]_vars

\* subprocess.run(..., timeout=t) stops waiting once t seconds have passed
LiveSpec == Spec /\ WF_vars(ProcTimeout)

(***************************************************************************)
(* Vocabulary of the properties.                                           *)
(***************************************************************************)
Done(name) == pc = "done" /\ op = name
Returned(v) == result.kind = "return" /\ result.val = v

\* the child started and exited with status 0
Succeeded == outcome.kind = "exited" /\ outcome.returncode = 0
\* binary not found, non-zero exit status, or timeout
Failed ==
    \/ outcome.kind \in {"FileNotFoundError", "TimeoutExpired"}
    \/ outcome.kind = "exited" /\ outcome.returncode # 0

BooleanOps == {"check_rclone_installed", "rclone_move", "rclone_mkdir"}
SequenceOps == {"rclone_listremotes", "rclone_lsf"}
\* every operation that runs rclone
ProcessOps == BooleanOps \cup SequenceOps \cup {"rclone_size", "rclone_exists"}

\* C1: when the process invocation of check_installed, list_remotes,
\* list_files, get_size, move or mkdir fails (binary not found, non-zero exit
\* status, timeout), the call returns its safe default (false, the empty
\* sequence, 0) and raises nothing; check_installed, move and mkdir return
\* true only when the process started and exited with status 0.
C1_SafeDefault ==
    (pc = "done" /\ op \in ProcessOps \ {"rclone_exists"}) =>
        /\ Failed =>
              /\ result.kind = "return"
              /\ op \in BooleanOps => result.val = FALSE
              /\ op \in SequenceOps => result.val = <<>>
              /\ op = "rclone_size" => result.val = 0
        /\ (op \in BooleanOps /\ Returned(TRUE)) => Succeeded

\* a move whose process timed out has returned false
C1_Witness == Done("rclone_move") /\ outcome.kind = "TimeoutExpired" /\ Returned(FALSE)

\* C2: exists returns false without a listing when the subpath is empty;
\* otherwise it makes one listing call, `rclone lsf <parent>` with neither
\* --recursive nor --files-only, on `remote_name:` when the parent of the
\* subpath is "." and on `remote_name:parent` otherwise, and returns true iff
\* the leaf name of the subpath is in that listing; a listing that raises
\* makes it return false.
C2_Exists ==
    Done("rclone_exists") =>
        LET remote_name == parse_remote_path(args.path)[1]
            subpath == parse_remote_path(args.path)[2]
            parent == PosixStr(PosixParent(PurePosixPath(subpath)))
            leaf == PosixName(PurePosixPath(subpath))
            target == remote_name \o <<":">>
                          \o (IF parent = <<".">> THEN <<>> ELSE parent)
        IN IF subpath = <<>>
           THEN Returned(FALSE) /\ invocations = 0
           ELSE /\ invocations = 1
                /\ run.cmd = <<W("rclone"), W("lsf"), P(target)>>
                /\ result.kind = "return"
                /\ result.val =
                       (Succeeded /\ Member(leaf, rclone_lsf_files(outcome.stdout)))

\* the leaf was found in the listing of a parent directory other than "."
C2_Witness ==
    /\ Done("rclone_exists")
    /\ Returned(TRUE)
    /\ PosixStr(PosixParent(PurePosixPath(parse_remote_path(args.path)[2]))) # <<".">>

\* C3: is_remote is true iff the string begins with two or more characters
\* that are neither "/" nor "\", immediately followed by a colon; it is false
\* for every single-letter drive prefix (`X:` followed by anything) and for
\* every string whose prefix before the colon contains "/" or "\".
C3_IsRemote ==
    Done("is_remote_path") =>
        LET path == args.path
            before == parse_remote_path(path)[1]
        IN /\ result.val =
                  (\E k \in 2..Len(path) :
                      /\ k < Len(path)
                      /\ path[k + 1] = ":"
                      /\ ~ \E i \in 1..k : path[i] = "/" \/ path[i] = "\\")
           /\ (Len(path) >= 2 /\ path[1] = "c" /\ path[2] = ":") =>
                  result.val = FALSE
           /\ (Contains(before, "/") \/ Contains(before, "\\")) =>
                  result.val = FALSE

\* C10: every string is_remote classifies as remote has, by parse_path, a
\* remote name of at least two characters with no "/", "\" or ":" in it.
C10_RemoteNameValid ==
    (Done("is_remote_path") /\ Returned(TRUE)) =>
        LET remote_name == parse_remote_path(args.path)[1]
        IN /\ Len(remote_name) >= 2
           /\ \A i \in 1..Len(remote_name) : remote_name[i] \notin {"/", "\\", ":"}

\* a plain path segment: not empty, no slash, not "."
PlainSegment(x) == x # <<>> /\ ~Contains(x, "/") /\ x # <<".">>
AllPlain(parts) == \A i \in 1..Len(parts) : PlainSegment(parts[i])
\* a normalised POSIX path: at most two leading slashes, then one or more
\* plain segments separated by single slashes, no trailing slash
Normalised(sub) ==
    LET rest == LStripChar(sub, "/")
    IN /\ Len(sub) - Len(rest) <= 2
       /\ rest # <<>>
       /\ AllPlain(Split(rest, "/"))
\* remote_name, a colon, then the base subpath (when not empty) and the parts,
\* separated by single slashes
Slashed(remote_base, parts) ==
    LET remote_name == parse_remote_path(remote_base)[1]
        subpath == parse_remote_path(remote_base)[2]
    IN remote_name \o <<":">>
           \o Join((IF subpath = <<>> THEN <<>> ELSE <<subpath>>) \o parts, "/")

\* C4 as claimed: for any base and any number of plain segments (none
\* included) join_path returns remote_name, a colon, then the base subpath
\* (when not empty) followed by the parts, separated by single slashes.
C4_JoinAnyBase ==
    (Done("join_remote_path") /\ AllPlain(args.parts)) =>
        Returned(Slashed(args.path, args.parts))

\* C4 as amended: the same, for a base whose subpath is empty or a normalised
\* POSIX path; with an empty subpath and no parts the result is
\* remote_name, a colon and ".".
C4_JoinNormalised ==
    LET remote_name == parse_remote_path(args.path)[1]
        subpath == parse_remote_path(args.path)[2]
    IN (/\ Done("join_remote_path")
        /\ AllPlain(args.parts)
        /\ subpath = <<>> \/ Normalised(subpath)) =>
           IF subpath = <<>> /\ args.parts = <<>>
           THEN Returned(remote_name \o <<":", ".">>)
           ELSE Returned(Slashed(args.path, args.parts))

\* two parts joined under an empty base subpath of a named remote
C4_Witness ==
    /\ Done("join_remote_path")
    /\ args.path = <<"g", "d", ":">>
    /\ args.parts = <<<<"a">>, <<"b">>>>
    /\ Returned(<<"g", "d", ":", "a", "/", "b">>)

\* C5: parse_path splits on the first colon only: with a colon in the input,
\* remote_name + ":" + subpath is the input and remote_name has no colon;
\* with none, remote_name is empty and subpath is the input; it never raises.
C5_Parse ==
    Done("parse_remote_path") =>
        /\ result.kind = "return"
        /\ IF Contains(args.path, ":")
           THEN /\ result.val[1] \o <<":">> \o result.val[2] = args.path
                /\ ~Contains(result.val[1], ":")
           ELSE result.val = <<<<>>, args.path>>

\* an input with two colons was split
C5_Witness ==
    /\ Done("parse_remote_path")
    /\ Contains(args.path, ":")
    /\ result.kind = "return"
    /\ Contains(result.val[2], ":")

\* C6: when the size process exits with status 0, get_size returns the
\* integer value of a numeric `bytes` field, and returns 0, never raising,
\* for output that is not JSON, has no `bytes` field, or has a `bytes` field
\* that is not numeric.  (A `bytes` that is a string of digits or a boolean is
\* left open here.)
C6_SizeNeverRaises ==
    (Done("rclone_size") /\ Succeeded) =>
        LET data == json_loads(outcome.stdout)
        IN /\ result.kind = "return"
           /\ (data.t = "object" /\ data.has_bytes
                   /\ data.bytes.t \in {"int", "float"}) =>
                  result.val = data.bytes.n
           /\ (\/ data.t # "object"
               \/ ~data.has_bytes
               \/ data.bytes.t \in {"letters", "null", "list", "dict"}) =>
                  result.val = 0

\* the lines of the output, trimmed, the blank ones dropped, in their order
TrimmedLines(stdout) == Without(StripEach(Split(stdout, "\n")), {<<>>})

\* C7: list_files runs `rclone lsf` with --recursive iff recursive, with
\* --files-only iff files_only, and the target path as the last argument; on
\* success it returns the output lines in their order, trimmed, the blank and
\* whitespace-only ones dropped.
C7_ListFiles ==
    Done("rclone_lsf") =>
        /\ run.cmd[1] = W("rclone")
        /\ run.cmd[2] = W("lsf")
        /\ Member(W("--recursive"), run.cmd) <=> args.recursive
        /\ Member(W("--files-only"), run.cmd) <=> args.files_only
        /\ run.cmd[Len(run.cmd)] = P(args.path)
        /\ Succeeded => Returned(TrimmedLines(outcome.stdout))

\* two lines came back in order, the second trimmed of a trailing space
C7_Witness ==
    /\ Done("rclone_lsf")
    /\ outcome.stdout = <<"a", "\n", "a", "a", " ">>
    /\ Returned(<<<<"a">>, <<"a", "a">>>>)

\* C8: the module's reset operation, _reset_rclone_cache, can be called, and
\* check_installed returns true iff the version process of that very call
\* started and exited with status 0.
C8_Resettable ==
    /\ Done("_reset_rclone_cache") => result.kind = "return"
    /\ Done("check_rclone_installed") =>
           /\ result.kind = "return" => result.val = Succeeded
           /\ invocations = 1

ProcessesRun ==
    IF op = "rclone_exists" /\ parse_remote_path(args.path)[2] = <<>> THEN 0 ELSE 1

====
